---- MODULE Spec2Model ----
(***************************************************************************)
(* Model of src/merkle/calc_root.rs: the root of a Merkle tree over the    *)
(* whitespace-separated words of a sentence.                               *)
(*                                                                         *)
(* A str is a sequence of one-character strings; the filler "" is <<>>.    *)
(* DefaultHasher is kept uninterpreted: a digest is the record of what was *)
(* fed to the hasher, so two digests are equal exactly when their inputs   *)
(* are (a collision-free hash).  hash::<&str> and hash::<Vec<u8>> feed the *)
(* hasher differently (str: bytes then 0xff, Vec<u8>: length then bytes),  *)
(* hence the two record shapes.  The eight little-endian bytes of a digest *)
(* are kept as one symbolic word.                                          *)
(***************************************************************************)
EXTENDS Integers, Sequences, FiniteSets, TLC

VARIABLES build, sentence, pc, leafs, queue, iters, outcome, root

vars == <<build, sentence, pc, leafs, queue, iters, outcome, root>>

(* ------------------------------ bounds --------------------------------- *)

MaxSentenceLen == 9

Alphabet == {" ", "a", "b"}

Whitespace == {" "}

Sentences == UNION {[1..n -> Alphabet] : n \in 0..MaxSentenceLen}

Builds == {"debug", "release"}

(* --------------------------- pure functions ---------------------------- *)

\* usize::MAX, the value 0usize - 1 wraps to when overflow checks are off;
\* kept as the two's complement representative -1 (all bits set).
UsizeMax == 0 - 1

\* a - b on usize without overflow checks (release profile).
wrapping_sub(a, b) == IF a >= b THEN a - b ELSE UsizeMax

\* a - b overflows usize: panics when overflow checks are on (dev profile).
sub_overflows(a, b) == a < b

RECURSIVE BitAnd(_, _)
\* The & operator on usize.
BitAnd(a, b) ==
    IF b = UsizeMax THEN a
    ELSE IF a = UsizeMax THEN b
    ELSE IF a = 0 \/ b = 0 THEN 0
    ELSE (a % 2) * (b % 2) + 2 * BitAnd(a \div 2, b \div 2)

RECURSIVE Split(_, _, _)
\* The SplitWhitespace iterator: cur is the word being read, acc the words
\* already yielded; empty words are never yielded.
Split(s, cur, acc) ==
    IF s = <<>>
    THEN IF cur = <<>> THEN acc ELSE Append(acc, cur)
    ELSE IF Head(s) \in Whitespace
         THEN Split(Tail(s), <<>>, IF cur = <<>> THEN acc ELSE Append(acc, cur))
         ELSE Split(Tail(s), Append(cur, Head(s)), acc)

\* sentence.split_whitespace().collect::<Vec<&str>>()
split_whitespace(s) == Split(s, <<>>, <<>>)

\* The filler value of pad_base_layer: let value: &str = "".
value == <<>>

pad_cond_even(len) == len % 2 # 0

pad_cond_plus_one(len) == BitAnd(len, len + 1) # 0

\* The loop condition of pad_base_layer: len & (len - 1) != 0, the
\* subtraction already performed (wrapping).
pad_cond(len) == BitAnd(len, wrapping_sub(len, 1)) # 0

\* hash::<&str>: the digest of a word.
hash_str(t) == [str |-> t]

\* hash::<Vec<u8>>: the digest of a byte vector.
hash_vec(t) == [vec |-> t]

\* u64::to_le_bytes: the 8 bytes of a digest, as one symbolic word.
to_le_bytes(d) == <<d>>

concatenate_left_only(left, right) ==
    hash_vec(to_le_bytes(left) \o to_le_bytes(left))

concatenate_hash_values(left, right) ==
    LET l == to_le_bytes(left)
        r == to_le_bytes(right)
        cmb == l \o r
    IN  hash_vec(cmb)

\* Iterator::rev over a slice.
Reverse(s) == [i \in 1..Len(s) |-> s[Len(s) + 1 - i]]

leaf_queue_no_rev(ls) == [i \in 1..Len(ls) |-> hash_str(ls[i])]

\* leafs.iter().rev().map(|x| hash(x)).collect::<Vec<HashValue>>()
leaf_queue(ls) == [i \in 1..Len(ls) |-> hash_str(Reverse(ls)[i])]

loop_cond_ge1(q) == Len(q) >= 1

loop_cond_gt2(q) == Len(q) > 2

\* while queue.len() > 1
loop_cond(q) == Len(q) > 1

\* Both queue.pop().unwrap() of the loop body succeed.
pops_ok(q) == Len(q) >= 2

loop_body_swapped(q) ==
    LET n == Len(q)
    IN  <<concatenate_hash_values(q[n - 1], q[n])>> \o SubSeq(q, 1, n - 2)

loop_body_push(q) ==
    LET n == Len(q)
    IN  Append(SubSeq(q, 1, n - 2), concatenate_hash_values(q[n], q[n - 1]))

\* The body of the reduction loop on a queue of at least two digests:
\* pair = (pop, pop); insert(0, concatenate_hash_values(pair.0, pair.1)).
loop_body(q) ==
    LET n == Len(q)
        pair0 == q[n]
        pair1 == q[n - 1]
        h == concatenate_hash_values(pair0, pair1)
    IN  <<h>> \o SubSeq(q, 1, n - 2)

\* The outcome of an expression that panics instead of yielding a digest.
Panicked == [panic |-> TRUE]

index0_or_default(q) == IF q = <<>> THEN [default |-> TRUE] ELSE q[1]

\* queue[0]: the digest, or the out-of-bounds panic on an empty queue.
index0(q) == IF q = <<>> THEN Panicked ELSE q[1]

RECURSIVE reduce_loop(_)
\* The reduction loop followed by queue[0], for a queue it does not panic on.
reduce_loop(q) ==
    IF loop_cond(q) /\ pops_ok(q) THEN reduce_loop(loop_body(q)) ELSE index0(q)

\* calc_root from the padded leaves on: lines 78-90.
root_of_leaves(ls) == reduce_loop(leaf_queue(ls))

(* ------------------------------ the state ------------------------------ *)

NoDigest == [none |-> TRUE]

Init ==
    /\ build \in Builds
    /\ sentence \in Sentences
    /\ pc = "tokenize"
    /\ leafs = <<>>
    /\ queue = <<>>
    /\ iters = 0
    /\ outcome = "running"
    /\ root = NoDigest

\* let mut leafs = sentence.split_whitespace().collect()
Tokenize ==
    /\ pc = "tokenize"
    /\ leafs' = split_whitespace(sentence)
    /\ pc' = "pad"
    /\ UNCHANGED <<build, sentence, queue, iters, outcome, root>>

\* blocks.len() - 1 with overflow checks on: the panic of the dev profile.
PadOverflow ==
    /\ pc = "pad"
    /\ build = "debug"
    /\ sub_overflows(Len(leafs), 1)
    /\ outcome' = "panic"
    /\ pc' = "done"
    /\ UNCHANGED <<build, sentence, leafs, queue, iters, root>>

\* The subtraction of the loop condition does not panic.
PadCondEvaluates == build = "release" \/ ~sub_overflows(Len(leafs), 1)

\* One iteration of the loop of pad_base_layer: blocks.push(value).
PadPush ==
    /\ pc = "pad"
    /\ PadCondEvaluates
    /\ pad_cond(Len(leafs))
    /\ leafs' = Append(leafs, value)
    /\ UNCHANGED <<build, sentence, pc, queue, iters, outcome, root>>

\* The loop condition of pad_base_layer is false: pad_base_layer returns.
PadReturn ==
    /\ pc = "pad"
    /\ PadCondEvaluates
    /\ ~pad_cond(Len(leafs))
    /\ pc' = "hash"
    /\ UNCHANGED <<build, sentence, leafs, queue, iters, outcome, root>>

\* let mut queue = leafs.iter().rev().map(hash).collect()
HashLeaves ==
    /\ pc = "hash"
    /\ queue' = leaf_queue(leafs)
    /\ pc' = "loop"
    /\ UNCHANGED <<build, sentence, leafs, iters, outcome, root>>

\* One iteration of the reduction loop; an unwrap of a failed pop panics.
Reduce ==
    /\ pc = "loop"
    /\ loop_cond(queue)
    /\ IF pops_ok(queue)
       THEN /\ queue' = loop_body(queue)
            /\ iters' = iters + 1
            /\ UNCHANGED <<pc, outcome>>
       ELSE /\ outcome' = "panic"
            /\ pc' = "done"
            /\ UNCHANGED <<queue, iters>>
    /\ UNCHANGED <<build, sentence, leafs, root>>

\* The loop condition is false: calc_root evaluates queue[0].
Return ==
    /\ pc = "loop"
    /\ ~loop_cond(queue)
    /\ IF index0(queue) = Panicked
       THEN /\ outcome' = "panic"
            /\ UNCHANGED root
       ELSE /\ outcome' = "returned"
            /\ root' = index0(queue)
    /\ pc' = "done"
    /\ UNCHANGED <<build, sentence, leafs, queue, iters>>

Next ==
    \/ Tokenize
    \/ PadOverflow
    \/ PadPush
    \/ PadReturn
    \/ HashLeaves
    \/ Reduce
    \/ Return

Spec == Init /\ [][Next]_vars

\* calc_root is a sequential function: a step that can be taken is taken.
FairSpec == Spec /\ WF_vars(Next)

(* ------------------- definitions used by the properties ---------------- *)

\* The blocks of the input, before padding.
Tokens == split_whitespace(sentence)

RECURSIVE Pow2(_)
Pow2(k) == IF k = 0 THEN 1 ELSE 2 * Pow2(k - 1)

IsPow2(n) == \E k \in 0..n : Pow2(k) = n

\* The smallest power of two that is at least n, for n >= 1.
NextPow2(n) == CHOOSE m \in n..(2 * n) : IsPow2(m) /\ \A j \in n..(m - 1) : ~IsPow2(j)

Fillers(k) == [i \in 1..k |-> value]

\* The leaf layer of the reference tree: the digests in block order.
RefLeaves(ls) == [i \in 1..Len(ls) |-> hash_str(ls[i])]

\* The layer above a layer: position i combines elements 2i-1 and 2i
\* (1-based), left then right.
RefNext(layer) ==
    [i \in 1..(Len(layer) \div 2) |->
        concatenate_hash_values(layer[2 * i - 1], layer[2 * i])]

RECURSIVE RefLayer(_, _)
RefLayer(layer, k) == IF k = 0 THEN layer ELSE RefNext(RefLayer(layer, k - 1))

RECURSIVE RefReduce(_)
RefReduce(layer) == IF Len(layer) <= 1 THEN layer[1] ELSE RefReduce(RefNext(layer))

RECURSIVE Depth(_)
\* The height of a digest in the tree: 0 for the digest of a block.
Depth(d) == IF "str" \in DOMAIN d THEN 0 ELSE 1 + Depth(d.vec[1])

SameLayer(q) == \A i, j \in 1..Len(q) : Depth(q[i]) = Depth(q[j])

\* Blocks a block of the padded sequence is replaced by.
AltBlocks == {value, <<"a">>, <<"b">>, <<"a", "b">>}

Returned == pc = "done" /\ outcome = "returned"

(* ------------------------------ properties ----------------------------- *)

\* C1: for a non-empty block sequence, the digest calc_root returns from
\* its pop-from-end / insert-at-front loop is the root of the layered
\* reduction of the leaf digests taken in block order.
C1_QueueRootIsLayeredRoot ==
    (pc = "done" /\ Tokens # <<>>) =>
        /\ outcome = "returned"
        /\ root = RefReduce(RefLeaves(leafs))

C1_Witness ==
    /\ Returned
    /\ Len(leafs) = 8
    /\ iters = 7
    /\ root = RefReduce(RefLeaves(leafs))
    /\ \E i, j \in 1..5 : Tokens[i] # Tokens[j]

\* C2: for a non-empty block sequence B, pad_base_layer returns B followed
\* by exactly NextPow2(len B) - len B fillers, none when len B is a power
\* of two.
C2_PadAppendsFillers ==
    (pc \notin {"tokenize", "pad"} /\ Tokens # <<>>) =>
        /\ leafs = Tokens \o Fillers(NextPow2(Len(Tokens)) - Len(Tokens))
        /\ (IsPow2(Len(Tokens)) => leafs = Tokens)

C2_Witness ==
    /\ pc = "hash"
    /\ Len(Tokens) = 5
    /\ leafs = Tokens \o <<value, value, value>>

\* C3: for every block sequence, the empty one included, the sequence
\* pad_base_layer returns has a power-of-two length that is at least the
\* original length.
C3_PaddedLenIsPow2 ==
    pc = "hash" => IsPow2(Len(leafs)) /\ Len(leafs) >= Len(Tokens)

\* C4: on an input without blocks calc_root fails or returns the digest of
\* the single filler; it returns no other digest.
C4_EmptyInputFailsOrFillerRoot ==
    (pc = "done" /\ Tokens = <<>>) =>
        \/ outcome = "panic" /\ root = NoDigest
        \/ outcome = "returned" /\ root = hash_str(value)

C4_Witness ==
    /\ pc = "done"
    /\ Tokens = <<>>
    /\ Len(sentence) > 0
    /\ build = "release"
    /\ outcome = "panic"

\* C5: on two blocks a, b calc_root returns
\* concatenate_hash_values(hash(a), hash(b)), a's digest on the left, and
\* not the swapped combination.
C5_PairRoot ==
    (pc = "done" /\ Len(Tokens) = 2) =>
        /\ outcome = "returned"
        /\ root = concatenate_hash_values(hash_str(Tokens[1]), hash_str(Tokens[2]))
        /\ Tokens[1] # Tokens[2] =>
             root # concatenate_hash_values(hash_str(Tokens[2]), hash_str(Tokens[1]))

C5_Witness ==
    /\ Returned
    /\ Len(Tokens) = 2
    /\ Tokens[1] # Tokens[2]
    /\ root = concatenate_hash_values(hash_str(Tokens[1]), hash_str(Tokens[2]))

\* C6: on a single block x calc_root returns hash(x): nothing is padded,
\* the reduction loop body never runs and so concatenate_hash_values is
\* never called.
C6_SingleLeafRoot ==
    (pc = "done" /\ Len(Tokens) = 1) =>
        /\ outcome = "returned"
        /\ root = hash_str(Tokens[1])
        /\ leafs = Tokens
        /\ iters = 0

C6_Witness ==
    /\ Returned
    /\ Len(Tokens) = 1
    /\ iters = 0
    /\ root = hash_str(Tokens[1])

\* C7: with a collision-free hash, replacing the block at any one position
\* of the padded sequence (a real block or a filler) by a different block
\* gives a different root.
C7_SingleBlockChangeChangesRoot ==
    Returned =>
        \A p \in 1..Len(leafs) : \A w \in AltBlocks :
            w # leafs[p] => root_of_leaves([leafs EXCEPT ![p] = w]) # root

C7_Witness ==
    /\ Returned
    /\ Len(Tokens) = 3
    /\ Len(leafs) = 4
    /\ root_of_leaves([leafs EXCEPT ![4] = <<"a">>]) # root
    /\ root_of_leaves([leafs EXCEPT ![2] = value]) # root

\* C8: for a non-empty input the queue first holds the n leaf digests, n a
\* power of two; after each complete round (n - n/2^k iterations) it holds
\* layer k of the tree (stored back to front), half as long as layer k-1;
\* the last layer has one element, the value returned.
C8_QueueHoldsLayers ==
    Tokens # <<>> =>
        /\ pc = "loop" /\ iters = 0 =>
             /\ IsPow2(Len(leafs))
             /\ queue = Reverse(RefLeaves(leafs))
        /\ pc = "loop" =>
             \A k \in 1..Len(leafs) :
                (Pow2(k) <= Len(leafs) /\ iters = Len(leafs) - Len(leafs) \div Pow2(k)) =>
                    /\ queue = Reverse(RefLayer(RefLeaves(leafs), k))
                    /\ 2 * Len(queue) = Len(RefLayer(RefLeaves(leafs), k - 1))
        /\ pc = "done" =>
             /\ Len(queue) = 1
             /\ outcome = "returned"
             /\ root = queue[1]

C8_Witness ==
    /\ pc = "loop"
    /\ Len(leafs) = 8
    /\ iters = 6
    /\ Len(queue) = 2
    /\ queue = Reverse(RefLayer(RefLeaves(leafs), 2))

\* C9: for a non-empty input nothing panics, a layer that is about to be
\* reduced never has an odd length, both pops of an iteration succeed and
\* the two digests popped have the same height in the tree.
C9_PairsWithinLayer ==
    Tokens # <<>> =>
        /\ outcome # "panic"
        /\ (pc = "loop" /\ loop_cond(queue)) =>
             /\ pops_ok(queue)
             /\ Depth(queue[Len(queue)]) = Depth(queue[Len(queue) - 1])
        /\ (pc = "loop" /\ SameLayer(queue)) =>
             Len(queue) = 1 \/ Len(queue) % 2 = 0

C9_Witness ==
    /\ pc = "loop"
    /\ Len(leafs) = 8
    /\ iters = 5
    /\ Depth(queue[Len(queue)]) = 1
    /\ Depth(queue[Len(queue) - 1]) = 1
    /\ Depth(queue[1]) = 2

\* C10: for a non-empty input both loops terminate and calc_root returns a
\* digest after exactly n - 1 iterations of the reduction loop, n the
\* number of padded leaves, which is log2(n) rounds.
C10_Terminates ==
    (pc = "tokenize" /\ Tokens # <<>>) ~>
        /\ Returned
        /\ iters = Len(leafs) - 1
        /\ Pow2(Depth(root)) = Len(leafs)

C10_Witness ==
    /\ Returned
    /\ Len(leafs) = 8
    /\ Len(Tokens) = 5
    /\ iters = 7
    /\ Depth(root) = 3

====
